---------------------------- MODULE Spec2Model ----------------------------
(***************************************************************************)
(* Model of src/app.py: a Streamlit script that, on every run of a         *)
(* session, takes the uploaded file, stores it in a temp file, decodes it, *)
(* queries the phonetics toolkit for seven scalars, computes the low/high  *)
(* spectral energy ratio, renders the numbers and a figure, and removes    *)
(* its two temp files in a finally block.                                  *)
(*                                                                         *)
(* Every session runs the same script; its position is pc[s].  The calls   *)
(* into librosa, soundfile, parselmouth, matplotlib and the file system    *)
(* answer nondeterministically (a value, NaN, or an exception).  The files *)
(* on disk and the figures registered with matplotlib.pyplot belong to the *)
(* process and are shared by all sessions and all runs.                    *)
(***************************************************************************)
EXTENDS Integers, Sequences, FiniteSets, TLC

VARIABLES
    pc,               \* per session: the statement the script run is at
    offered,          \* per session: what the user put into the upload control
    uploaded_file,    \* line 18
    tmp_file_path,    \* line 27
    audio_only_path,  \* line 30
    y,                \* line 35: decoded sample buffer
    S,                \* line 71: STFT magnitudes, one per frequency bin
    m_pitch, f1, f2, f3, jitter, shimmer, hnr,   \* lines 53-68
    low_band, high_band, lh_ratio,               \* lines 73-75
    page,             \* per session: the elements rendered by this run
    metrics,          \* per session: the numbers rendered by lines 82-92
    created,          \* per session: paths this run created on disk
    answer,           \* per session: the toolkit's answer to the latest query
    jitter_ret,       \* per session: what the jitter query returned
    caught,           \* per session: query whose exception line 64 caught
    raised,           \* per session: step whose exception reached line 121
    runs,             \* per session: runs that got an uploaded file
    disk,             \* paths that exist on disk
    figs,             \* figures registered with matplotlib.pyplot
    faults            \* file-system faults injected so far

vars == <<pc, offered, uploaded_file, tmp_file_path, audio_only_path, y, S,
          m_pitch, f1, f2, f3, jitter, shimmer, hnr, low_band, high_band,
          lh_ratio, page, metrics, created, answer, jitter_ret, caught,
          raised, runs, disk, figs, faults>>

---------------------------------------------------------------------------
(* Bounds of the model *)

NumSessions == 2
MaxRuns == 1
MaxFaults == 1
BufLen == 2
MaxMag == 2
NFft == 4

(* Constants of the program *)

SampleRate == 22050
BandSplitHz == 1000
MantissaBits == 24

Sessions == 1..NumSessions

---------------------------------------------------------------------------
(* Values *)

Num(v) == [k |-> "num", v |-> v]
NaN == [k |-> "nan", v |-> 0]
Raise == [k |-> "raise", v |-> 0]
Unset == [k |-> "unset", v |-> 0]

isnan(x) == x.k = "nan"

\* x * c in floating point: NaN stays NaN
Times(x, c) == IF x.k = "num" THEN Num(x.v * c) ELSE x

NoFile == <<>>
NoPath == <<>>
NoRatio == <<>>

RECURSIVE GCD(_, _)
GCD(a, b) == IF b = 0 THEN a ELSE GCD(b, a % b)

\* n / d in floating point on non-negative operands, as a reduced fraction;
\* <<1, 0>> is inf and <<0, 0>> is nan
Div(n, d) ==
    IF d = 0 THEN (IF n = 0 THEN <<0, 0>> ELSE <<1, 0>>)
    ELSE <<n \div GCD(n, d), d \div GCD(n, d)>>

ZeroRatio == <<0, 1>>

---------------------------------------------------------------------------
(* The upload control, line 18 *)

\* an extension is the sequence of its characters
DotWav == <<".", "w", "a", "v">>
DotMp4 == <<".", "m", "p", "4">>
DotM4a == <<".", "m", "4", "a">>

AcceptedTypes == {DotWav, DotMp4, DotM4a}

\* a file name as os.path.splitext splits it: <<root, extension>>
Uploads == {<<"a", DotWav>>,
            <<"b", <<".", "M", "P", "4">>>>,
            <<"c", <<".", "m", "4", "A">>>>,
            <<"d", <<".", "T", "x", "t">>>>,
            <<"e", <<>>>>}

UpperCase == <<"A", "B", "C", "D", "E", "F", "G", "H", "I", "J", "K", "L", "M",
               "N", "O", "P", "Q", "R", "S", "T", "U", "V", "W", "X", "Y", "Z">>

LowerCase == <<"a", "b", "c", "d", "e", "f", "g", "h", "i", "j", "k", "l", "m",
               "n", "o", "p", "q", "r", "s", "t", "u", "v", "w", "x", "y", "z">>

LowerChar(c) ==
    IF \E i \in 1..26 : UpperCase[i] = c
    THEN LowerCase[CHOOSE i \in 1..26 : UpperCase[i] = c]
    ELSE c

\* str.lower(), character by character
Lower(ext) == [i \in 1..Len(ext) |-> LowerChar(ext[i])]

\* an upload control without the type restriction
file_uploader_any(u) == u

file_uploader(u) ==
    IF u # NoFile /\ Lower(u[2]) \in AcceptedTypes THEN u ELSE NoFile

file_extension(u) == Lower(u[2])

---------------------------------------------------------------------------
(* Temp files, lines 25-30 *)

Names == {"tmpa", "tmpb"}

TmpPath(n, ext) == <<n, ext>>

converted(p) == Append(p, "_converted.wav")

---------------------------------------------------------------------------
(* Safe scalar extraction, lines 48-50 *)

\* the query result passed on without the NaN test
get_praat_val_unguarded(val) == val

get_praat_val(val) == IF isnan(val) THEN Num(0) ELSE val

---------------------------------------------------------------------------
(* Spectral energy ratio, lines 71-75 *)

NumBins == 1 + NFft \div 2

Bins == 0..(NumBins - 1)

\* librosa.fft_frequencies: bin k is at k * sr / n_fft Hz
IsLow(k) == k * SampleRate <= BandSplitHz * NFft

RECURSIVE SumBins(_, _)
SumBins(Sv, ks) ==
    IF ks = {} THEN 0
    ELSE LET k == CHOOSE x \in ks : TRUE
         IN Sv[k + 1] + SumBins(Sv, ks \ {k})

LowBand(Sv) == SumBins(Sv, {k \in Bins : IsLow(k)})

HighBand(Sv) == SumBins(Sv, {k \in Bins : ~IsLow(k)})

\* the quotient without the test of the high band
LhRatio_unguarded(low, high) == Div(low, high)

LhRatio(low, high) == IF high > 0 THEN Div(low, high) ELSE ZeroRatio

Silent(yv) == \A i \in 1..Len(yv) : yv[i] = 0

Buffers == [1..BufLen -> {0, 1}]

\* the magnitudes librosa.stft can give for a buffer: all zero for silence
Stft(yv, mags) ==
    IF Silent(yv) THEN {[k \in 1..NumBins |-> 0]} ELSE [1..NumBins -> mags]

---------------------------------------------------------------------------
(* Results display, lines 82-92: each number in units of its last digit *)

Inf == [k |-> "inf", v |-> 0]

RECURSIVE Pow2(_)
Pow2(k) == IF k = 0 THEN 1 ELSE 2 * Pow2(k - 1)

\* the doublings of n that reach d, and of d that stay within n
RECURSIVE Up(_, _)
Up(n, d) == IF n >= d THEN 0 ELSE 1 + Up(2 * n, d)

RECURSIVE Down(_, _)
Down(n, d) == IF n < 2 * d THEN 0 ELSE 1 + Down(n, 2 * d)

\* <<q, r>> after e more binary places of the division by d
RECURSIVE LongDiv(_, _, _, _)
LongDiv(q, r, d, e) ==
    IF e = 0 THEN <<q, r>>
    ELSE IF 2 * r >= d THEN LongDiv(2 * q + 1, 2 * r - d, d, e - 1)
         ELSE LongDiv(2 * q, 2 * r, d, e - 1)

RECURSIVE Shr(_, _)
Shr(m, e) == IF e = 0 \/ m = 0 THEN m ELSE Shr(m \div 2, e - 1)

\* the sums are np.float32, and so is their quotient: <<m, e>> with m / 2^e
\* the float32 nearest to n / d, ties to the even mantissa (0 < n, d < 2^24)
Float32(n, d) ==
    LET e == (MantissaBits - 1) + Up(n, d) - Down(n, d)
        qr == LongDiv(n \div d, n % d, d, e)
        up == 2 * qr[2] > d \/ (2 * qr[2] = d /\ qr[1] % 2 = 1)
    IN <<IF up THEN qr[1] + 1 ELSE qr[1], e>>

\* f / 2^e (f < 2^e) in ten-thousandths, a value halfway between two of
\* them to the even one; 10000 * f is split so that no product passes 2^31
Frac4(f, e) ==
    IF e <= 16
    THEN LET p == Pow2(e)
             q == (10000 * f) \div p
             r == (10000 * f) % p
         IN IF 2 * r > p \/ (2 * r = p /\ q % 2 = 1) THEN q + 1 ELSE q
    ELSE IF e - 16 > MantissaBits - 1 THEN 0
    ELSE LET p == Pow2(e - 16)
             b == 625 * (f % 4096)
             h == 625 * (f \div 4096) + b \div 4096
             l == b % 4096
             q == h \div p
             r == h % p
             half == p \div 2
         IN IF r > half \/ (r = half /\ (l > 0 \/ q % 2 = 1))
            THEN q + 1 ELSE q

\* f"{lh_ratio:.4f}" in ten-thousandths: the float32 quotient rounded to
\* four decimals (a quotient below 2^31 / 10000)
Round4(q) ==
    IF q[2] = 0 THEN (IF q[1] = 0 THEN NaN ELSE Inf)
    ELSE IF q[1] = 0 THEN Num(0)
    ELSE LET me == Float32(q[1], q[2])
             m == me[1]
             e == me[2]
             i == Shr(m, e)
             f == IF e <= MantissaBits THEN m - i * Pow2(e) ELSE m
         IN Num(10000 * i + Frac4(f, e))

NoMetrics == [pitch |-> Unset, f1 |-> Unset, f2 |-> Unset, f3 |-> Unset,
              jitter |-> Unset, shimmer |-> Unset, hnr |-> Unset, lh |-> Unset]

Shown(s) ==
    [pitch |-> Times(m_pitch[s], 100),
     f1 |-> Times(f1[s], 100),
     f2 |-> Times(f2[s], 100),
     f3 |-> Times(f3[s], 100),
     jitter |-> Times(Times(jitter[s], 100), 1000),
     shimmer |-> Times(Times(shimmer[s], 100), 1000),
     hnr |-> Times(hnr[s], 100),
     lh |-> Round4(lh_ratio[s])]

---------------------------------------------------------------------------
(* The environment a specification runs the script in *)

Numbers == {Num(2)}

Tone == [i \in 1..BufLen |-> 1]

\* one session; the toolkit, the decoder, the plotting and the file system
\* answer in every way they can; the decoded buffer is a fixed tone
FullEnv == [upl |-> Uploads \cup {NoFile},
            ans |-> Numbers \cup {NaN, Raise},
            buf |-> {Tone},
            mag |-> {1},
            exc |-> {FALSE, TRUE},
            fs |-> {"ok", "fail"},
            who |-> {1}]

\* one session; every decoded buffer and every spectrum, the toolkit
\* answering each query with a number
RatioEnv == [upl |-> {<<"a", DotWav>>, NoFile},
             ans |-> {Num(2)},
             buf |-> Buffers,
             mag |-> 0..MaxMag,
             exc |-> {FALSE, TRUE},
             fs |-> {"ok"},
             who |-> {1}]

\* the runs of all sessions interleaved, on a fixed tone
ConcEnv == [upl |-> {<<"a", DotWav>>, NoFile},
            ans |-> {Num(2)},
            buf |-> {Tone},
            mag |-> {1},
            exc |-> {FALSE, TRUE},
            fs |-> {"ok"},
            who |-> Sessions]

---------------------------------------------------------------------------
Set(f, s, v) == [f EXCEPT ![s] = v]

Init ==
    /\ pc = [s \in Sessions |-> "idle"]
    /\ offered = [s \in Sessions |-> NoFile]
    /\ uploaded_file = [s \in Sessions |-> NoFile]
    /\ tmp_file_path = [s \in Sessions |-> NoPath]
    /\ audio_only_path = [s \in Sessions |-> NoPath]
    /\ y = [s \in Sessions |-> <<>>]
    /\ S = [s \in Sessions |-> <<>>]
    /\ m_pitch = [s \in Sessions |-> Unset]
    /\ f1 = [s \in Sessions |-> Unset]
    /\ f2 = [s \in Sessions |-> Unset]
    /\ f3 = [s \in Sessions |-> Unset]
    /\ jitter = [s \in Sessions |-> Unset]
    /\ shimmer = [s \in Sessions |-> Unset]
    /\ hnr = [s \in Sessions |-> Unset]
    /\ low_band = [s \in Sessions |-> 0]
    /\ high_band = [s \in Sessions |-> 0]
    /\ lh_ratio = [s \in Sessions |-> NoRatio]
    /\ page = [s \in Sessions |-> <<>>]
    /\ metrics = [s \in Sessions |-> NoMetrics]
    /\ created = [s \in Sessions |-> {}]
    /\ answer = [s \in Sessions |-> Unset]
    /\ jitter_ret = [s \in Sessions |-> Unset]
    /\ caught = [s \in Sessions |-> "none"]
    /\ raised = [s \in Sessions |-> "none"]
    /\ runs = [s \in Sessions |-> 0]
    /\ disk = {}
    /\ figs = 0
    /\ faults = 0

paths == <<tmp_file_path, audio_only_path>>
scalars == <<m_pitch, f1, f2, f3, jitter, shimmer, hnr>>
spectral == <<S, low_band, high_band, lh_ratio>>
rendered == <<page, metrics>>
history == <<offered, created, jitter_ret, caught, runs>>
process == <<disk, figs, faults>>

\* the script run of session s is over: its namespace is discarded
EndRun(s) ==
    /\ pc' = Set(pc, s, "idle")
    /\ uploaded_file' = Set(uploaded_file, s, NoFile)
    /\ tmp_file_path' = Set(tmp_file_path, s, NoPath)
    /\ audio_only_path' = Set(audio_only_path, s, NoPath)
    /\ y' = Set(y, s, <<>>)
    /\ S' = Set(S, s, <<>>)
    /\ m_pitch' = Set(m_pitch, s, Unset)
    /\ f1' = Set(f1, s, Unset)
    /\ f2' = Set(f2, s, Unset)
    /\ f3' = Set(f3, s, Unset)
    /\ jitter' = Set(jitter, s, Unset)
    /\ shimmer' = Set(shimmer, s, Unset)
    /\ hnr' = Set(hnr, s, Unset)
    /\ low_band' = Set(low_band, s, 0)
    /\ high_band' = Set(high_band, s, 0)
    /\ lh_ratio' = Set(lh_ratio, s, NoRatio)
    /\ answer' = Set(answer, s, Unset)

\* an exception leaves the statement at `step` for the handler of line 121
ToHandler(s, step) ==
    /\ pc' = Set(pc, s, "except")
    /\ raised' = Set(raised, s, step)


locals == <<uploaded_file, paths, y, scalars, spectral, answer>>

---------------------------------------------------------------------------
(* Lines 18-20: a run of the script starts; the page is rendered anew *)

Rerun(s, E) ==
    /\ pc[s] = "idle"
    /\ \E u \in E.upl :
         /\ offered' = Set(offered, s, u)
         /\ IF file_uploader(u) = NoFile
            THEN UNCHANGED <<pc, uploaded_file, runs>>
            ELSE /\ runs[s] < MaxRuns
                 /\ runs' = Set(runs, s, runs[s] + 1)
                 /\ uploaded_file' = Set(uploaded_file, s, file_uploader(u))
                 /\ pc' = Set(pc, s, "create")
    /\ page' = Set(page, s, <<>>)
    /\ metrics' = Set(metrics, s, NoMetrics)
    /\ created' = Set(created, s, {})
    /\ jitter_ret' = Set(jitter_ret, s, Unset)
    /\ caught' = Set(caught, s, "none")
    /\ raised' = Set(raised, s, "none")
    /\ UNCHANGED <<paths, y, scalars, spectral, answer, process>>

(* Lines 22-30: NamedTemporaryFile(delete=False) creates a file under a    *)
(* name no existing file has; the upload is written to it.  A failing      *)
(* write leaves the with block, and the script, with the file on disk.    *)
CreateTmp(s, E) ==
    /\ pc[s] = "create"
    /\ \E n \in Names, r \in E.fs :
         LET p == TmpPath(n, file_extension(uploaded_file[s])) IN
         /\ p \notin disk
         /\ disk' = disk \cup {p}
         /\ created' = Set(created, s, created[s] \cup {p})
         /\ IF r = "ok"
            THEN /\ tmp_file_path' = Set(tmp_file_path, s, p)
                 /\ audio_only_path' = Set(audio_only_path, s, converted(p))
                 /\ pc' = Set(pc, s, "load")
                 /\ UNCHANGED <<uploaded_file, y, scalars, spectral, answer,
                                page, faults>>
            ELSE /\ faults < MaxFaults
                 /\ faults' = faults + 1
                 /\ page' = Set(page, s, Append(page[s], "exception"))
                 /\ EndRun(s)
    /\ UNCHANGED <<offered, jitter_ret, caught, raised, runs, metrics, figs>>

(* Line 35: librosa.load reads the temp file *)
Load(s, E) ==
    /\ pc[s] = "load"
    /\ IF tmp_file_path[s] \notin disk
       THEN ToHandler(s, "load") /\ UNCHANGED y
       ELSE \E x \in E.exc :
              IF x THEN ToHandler(s, "load") /\ UNCHANGED y
              ELSE \E b \in E.buf :
                     /\ y' = Set(y, s, b)
                     /\ pc' = Set(pc, s, "write")
                     /\ UNCHANGED raised
    /\ UNCHANGED <<uploaded_file, paths, scalars, spectral, answer, rendered,
                   history, process>>

(* Line 38: sf.write creates the converted file; when it fails the file   *)
(* may already be there                                                    *)
WriteWav(s, E) ==
    /\ pc[s] = "write"
    /\ \E x \in E.exc, made \in BOOLEAN :
         LET p == audio_only_path[s] IN
         IF x
         THEN /\ disk' = IF made THEN disk \cup {p} ELSE disk
              /\ created' = Set(created, s,
                                IF made THEN created[s] \cup {p} ELSE created[s])
              /\ ToHandler(s, "write")
         ELSE /\ made
              /\ disk' = disk \cup {p}
              /\ created' = Set(created, s, created[s] \cup {p})
              /\ pc' = Set(pc, s, "analyse")
              /\ UNCHANGED raised
    /\ UNCHANGED <<locals, rendered, offered, jitter_ret, caught, runs, figs,
                   faults>>

(* Lines 41-45: parselmouth reads the converted file and builds the        *)
(* pitch, formant, point process and harmonicity objects                   *)
Analyse(s, E) ==
    /\ pc[s] = "analyse"
    /\ IF audio_only_path[s] \notin disk
       THEN ToHandler(s, "analyse")
       ELSE \E x \in E.exc :
              IF x THEN ToHandler(s, "analyse")
              ELSE pc' = Set(pc, s, "pitch") /\ UNCHANGED raised
    /\ UNCHANGED <<locals, rendered, history, process>>

(* Line 53 *)
Pitch(s, E) ==
    /\ pc[s] = "pitch"
    /\ \E r \in E.ans :
         /\ answer' = Set(answer, s, r)
         /\ IF r = Raise
            THEN ToHandler(s, "pitch") /\ UNCHANGED m_pitch
            ELSE /\ m_pitch' = Set(m_pitch, s, get_praat_val(r))
                 /\ pc' = Set(pc, s, "f1")
                 /\ UNCHANGED raised
    /\ UNCHANGED <<uploaded_file, paths, y, f1, f2, f3, jitter, shimmer, hnr,
                   spectral, rendered, history, process>>

(* Line 56 *)
F1(s, E) ==
    /\ pc[s] = "f1"
    /\ \E r \in E.ans :
         /\ answer' = Set(answer, s, r)
         /\ IF r = Raise
            THEN ToHandler(s, "f1") /\ UNCHANGED f1
            ELSE /\ f1' = Set(f1, s, get_praat_val(r))
                 /\ pc' = Set(pc, s, "f2")
                 /\ UNCHANGED raised
    /\ UNCHANGED <<uploaded_file, paths, y, m_pitch, f2, f3, jitter, shimmer,
                   hnr, spectral, rendered, history, process>>

(* Line 57 *)
F2(s, E) ==
    /\ pc[s] = "f2"
    /\ \E r \in E.ans :
         /\ answer' = Set(answer, s, r)
         /\ IF r = Raise
            THEN ToHandler(s, "f2") /\ UNCHANGED f2
            ELSE /\ f2' = Set(f2, s, get_praat_val(r))
                 /\ pc' = Set(pc, s, "f3")
                 /\ UNCHANGED raised
    /\ UNCHANGED <<uploaded_file, paths, y, m_pitch, f1, f3, jitter, shimmer,
                   hnr, spectral, rendered, history, process>>

(* Line 58 *)
F3(s, E) ==
    /\ pc[s] = "f3"
    /\ \E r \in E.ans :
         /\ answer' = Set(answer, s, r)
         /\ IF r = Raise
            THEN ToHandler(s, "f3") /\ UNCHANGED f3
            ELSE /\ f3' = Set(f3, s, get_praat_val(r))
                 /\ pc' = Set(pc, s, "jitter")
                 /\ UNCHANGED raised
    /\ UNCHANGED <<uploaded_file, paths, y, m_pitch, f1, f2, jitter, shimmer,
                   hnr, spectral, rendered, history, process>>

---------------------------------------------------------------------------
(* Lines 61-65: jitter and shimmer inside their own try / bare except *)

\* line 65: the values of <<jitter, shimmer>> after the handler, given the
\* value jitter had
\* a handler that resets shimmer alone
OnStabilityError_partial(j) == <<j, Num(0)>>

OnStabilityError(j) == <<Num(0), Num(0)>>

\* where the run goes on after the handler of line 64
\* a jitter / shimmer exception that reaches the top-level handler
AfterStabilityError_abort == "except"

AfterStabilityError == "hnr"

(* Line 62 *)
Jitter(s, E) ==
    /\ pc[s] = "jitter"
    /\ \E r \in E.ans :
         /\ answer' = Set(answer, s, r)
         /\ IF r = Raise
            THEN /\ jitter' = Set(jitter, s, OnStabilityError(jitter[s])[1])
                 /\ shimmer' = Set(shimmer, s, OnStabilityError(jitter[s])[2])
                 /\ caught' = Set(caught, s, "jitter")
                 /\ pc' = Set(pc, s, AfterStabilityError)
                 /\ UNCHANGED jitter_ret
            ELSE /\ jitter' = Set(jitter, s, r)
                 /\ jitter_ret' = Set(jitter_ret, s, r)
                 /\ pc' = Set(pc, s, "shimmer")
                 /\ UNCHANGED <<shimmer, caught>>
    /\ UNCHANGED <<uploaded_file, paths, y, m_pitch, f1, f2, f3, hnr, spectral,
                   rendered, offered, created, runs, raised, process>>

(* Line 63 *)
Shimmer(s, E) ==
    /\ pc[s] = "shimmer"
    /\ \E r \in E.ans :
         /\ answer' = Set(answer, s, r)
         /\ IF r = Raise
            THEN /\ jitter' = Set(jitter, s, OnStabilityError(jitter[s])[1])
                 /\ shimmer' = Set(shimmer, s, OnStabilityError(jitter[s])[2])
                 /\ caught' = Set(caught, s, "shimmer")
                 /\ pc' = Set(pc, s, AfterStabilityError)
            ELSE /\ shimmer' = Set(shimmer, s, r)
                 /\ pc' = Set(pc, s, "hnr")
                 /\ UNCHANGED <<jitter, caught>>
    /\ UNCHANGED <<uploaded_file, paths, y, m_pitch, f1, f2, f3, hnr, spectral,
                   rendered, offered, created, jitter_ret, runs, raised,
                   process>>

(* Line 68 *)
Hnr(s, E) ==
    /\ pc[s] = "hnr"
    /\ \E r \in E.ans :
         /\ answer' = Set(answer, s, r)
         /\ IF r = Raise
            THEN ToHandler(s, "hnr") /\ UNCHANGED hnr
            ELSE /\ hnr' = Set(hnr, s, get_praat_val(r))
                 /\ pc' = Set(pc, s, "lh")
                 /\ UNCHANGED raised
    /\ UNCHANGED <<uploaded_file, paths, y, m_pitch, f1, f2, f3, jitter,
                   shimmer, spectral, rendered, history, process>>

(* Lines 71-75 *)
Spectral(s, E) ==
    /\ pc[s] = "lh"
    /\ \E x \in E.exc :
         IF x THEN ToHandler(s, "lh") /\ UNCHANGED spectral
         ELSE \E Sv \in Stft(y[s], E.mag) :
                /\ S' = Set(S, s, Sv)
                /\ low_band' = Set(low_band, s, LowBand(Sv))
                /\ high_band' = Set(high_band, s, HighBand(Sv))
                /\ lh_ratio' = Set(lh_ratio, s,
                                   LhRatio(LowBand(Sv), HighBand(Sv)))
                /\ pc' = Set(pc, s, "display")
                /\ UNCHANGED raised
    /\ UNCHANGED <<uploaded_file, paths, y, scalars, answer, rendered, history,
                   process>>

(* Lines 78-92 *)
Display(s) ==
    /\ pc[s] = "display"
    /\ page' = Set(page, s, Append(page[s], "results"))
    /\ metrics' = Set(metrics, s, Shown(s))
    /\ pc' = Set(pc, s, "plot")
    /\ UNCHANGED <<locals, history, raised, process>>

(* Lines 94-117: plt.subplots registers a new figure with pyplot, unless  *)
(* it raises before the figure exists; nothing in the script closes it     *)
Plot(s, E) ==
    /\ pc[s] = "plot"
    /\ \E x \in E.exc, made \in BOOLEAN :
         IF x
         THEN /\ figs' = IF made THEN figs + 1 ELSE figs
              /\ ToHandler(s, "plot")
              /\ UNCHANGED page
         ELSE /\ made
              /\ figs' = figs + 1
              /\ page' = Set(page, s, Append(page[s], "pyplot"))
              /\ pc' = Set(pc, s, "success")
              /\ UNCHANGED raised
    /\ UNCHANGED <<locals, metrics, history, disk, faults>>

(* Line 119 *)
Success(s) ==
    /\ pc[s] = "success"
    /\ page' = Set(page, s, Append(page[s], "success"))
    /\ pc' = Set(pc, s, "rm1")
    /\ UNCHANGED <<locals, metrics, history, raised, process>>

\* lines 122-123: what the handler renders
\* a handler that renders the error without the hint
HandlerOutput_nohint == <<"error">>

HandlerOutput == <<"error", "info">>

(* Lines 121-123 *)
Except(s) ==
    /\ pc[s] = "except"
    /\ page' = Set(page, s, page[s] \o HandlerOutput)
    /\ pc' = Set(pc, s, "rm1")
    /\ UNCHANGED <<locals, metrics, history, raised, process>>

(* Line 128, p = tmp_file_path: os.path.exists *)
Exists1(s) ==
    /\ pc[s] = "rm1"
    /\ pc' = Set(pc, s, IF tmp_file_path[s] \in disk THEN "del1" ELSE "rm2")
    /\ UNCHANGED <<locals, rendered, history, raised, process>>

(* Line 129, p = tmp_file_path: os.remove; when it raises (the file is    *)
(* gone by now, or the file system refuses) the exception leaves the loop  *)
(* and the script                                                          *)
Remove1(s, E) ==
    /\ pc[s] = "del1"
    /\ LET p == tmp_file_path[s] IN
       IF p \in disk
       THEN \E r \in E.fs :
              IF r = "ok"
              THEN /\ disk' = disk \ {p}
                   /\ pc' = Set(pc, s, "rm2")
                   /\ UNCHANGED <<locals, page, faults>>
              ELSE /\ faults < MaxFaults
                   /\ faults' = faults + 1
                   /\ page' = Set(page, s, Append(page[s], "exception"))
                   /\ EndRun(s)
                   /\ UNCHANGED disk
       ELSE /\ page' = Set(page, s, Append(page[s], "exception"))
            /\ EndRun(s)
            /\ UNCHANGED <<disk, faults>>
    /\ UNCHANGED <<metrics, history, raised, figs>>

(* Line 128, p = audio_only_path: os.path.exists; without the file the    *)
(* loop and the run end                                                    *)
Exists2(s) ==
    /\ pc[s] = "rm2"
    /\ IF audio_only_path[s] \in disk
       THEN pc' = Set(pc, s, "del2") /\ UNCHANGED <<locals, rendered, history, raised, process>>
       ELSE EndRun(s) /\ UNCHANGED <<rendered, history, raised, process>>

(* Line 129, p = audio_only_path: os.remove; the run ends *)
Remove2(s, E) ==
    /\ pc[s] = "del2"
    /\ LET p == audio_only_path[s] IN
       IF p \in disk
       THEN \E r \in E.fs :
              IF r = "ok"
              THEN /\ disk' = disk \ {p}
                   /\ UNCHANGED <<page, faults>>
              ELSE /\ faults < MaxFaults
                   /\ faults' = faults + 1
                   /\ page' = Set(page, s, Append(page[s], "exception"))
                   /\ UNCHANGED disk
       ELSE /\ page' = Set(page, s, Append(page[s], "exception"))
            /\ UNCHANGED <<disk, faults>>
    /\ EndRun(s)
    /\ UNCHANGED <<metrics, history, raised, figs>>

---------------------------------------------------------------------------
Step(s, E) ==
    \/ Rerun(s, E)
    \/ CreateTmp(s, E)
    \/ Load(s, E)
    \/ WriteWav(s, E)
    \/ Analyse(s, E)
    \/ Pitch(s, E)
    \/ F1(s, E)
    \/ F2(s, E)
    \/ F3(s, E)
    \/ Jitter(s, E)
    \/ Shimmer(s, E)
    \/ Hnr(s, E)
    \/ Spectral(s, E)
    \/ Display(s)
    \/ Plot(s, E)
    \/ Success(s)
    \/ Except(s)
    \/ Exists1(s)
    \/ Remove1(s, E)
    \/ Exists2(s)
    \/ Remove2(s, E)

\* one session: each run is processed to its end before the next begins
Next == \E s \in FullEnv.who : Step(s, FullEnv)

Spec == Init /\ [][Next]_vars

\* the runs of several sessions interleaved
NextConc == \E s \in ConcEnv.who : Step(s, ConcEnv)

SpecConc == Init /\ [][NextConc]_vars

\* one session, over every buffer and spectrum
NextRatio == \E s \in RatioEnv.who : Step(s, RatioEnv)

SpecRatio == Init /\ [][NextRatio]_vars

---------------------------------------------------------------------------
(* Properties *)

Has(seq, e) == \E i \in 1..Len(seq) : seq[i] = e

Count(seq, e) == Cardinality({i \in 1..Len(seq) : seq[i] = e})

\* the run of session s is past its try / except
PastHandler(s) == pc[s] \in {"rm1", "del1", "rm2", "del2", "idle"}

\* C1: once a run has finished, none of the temp files it created (the
\* upload temp file, the converted WAV) exists on disk, on every exit path.
C1_TempFilesRemoved ==
    \A s \in Sessions : pc[s] = "idle" => created[s] \cap disk = {}

\* C2: wherever the results are displayed, none of the seven toolkit scalars
\* is shown as NaN (a NaN answer is shown as 0).
C2_DisplayedNotNaN ==
    \A s \in Sessions :
      Has(page[s], "results") =>
        /\ ~isnan(metrics[s].pitch)
        /\ ~isnan(metrics[s].f1)
        /\ ~isnan(metrics[s].f2)
        /\ ~isnan(metrics[s].f3)
        /\ ~isnan(metrics[s].jitter)
        /\ ~isnan(metrics[s].shimmer)
        /\ ~isnan(metrics[s].hnr)

\* C3: if the jitter query or the shimmer query raised, jitter and shimmer
\* are both 0 from then on and both are displayed as 0, also when the jitter
\* query had returned a value before the shimmer query raised.
C3_BothZero ==
    \A s \in Sessions :
      caught[s] # "none" =>
        /\ pc[s] # "idle" => jitter[s] = Num(0) /\ shimmer[s] = Num(0)
        /\ Has(page[s], "results") =>
             metrics[s].jitter = Num(0) /\ metrics[s].shimmer = Num(0)

C3_Witness ==
    \E s \in Sessions :
      /\ caught[s] = "shimmer"
      /\ jitter_ret[s] = Num(2)
      /\ Has(page[s], "results")
      /\ metrics[s].jitter = Num(0)
      /\ metrics[s].shimmer = Num(0)

GuardedQueries == {"pitch", "f1", "f2", "f3", "hnr"}

\* C4 as stated: a pitch, formant or HNR query handled by get_praat_val
\* never aborts the run (a failed query yields 0).
C4_NeverAborts ==
    \A s \in Sessions : raised[s] \notin GuardedQueries

\* what get_praat_val is to return for a toolkit answer that is a value
Coerced(a) == IF a.k = "nan" THEN Num(0) ELSE a

\* C4 as amended: get_praat_val returns the toolkit's result when it is a
\* number and 0 when it is NaN; a query that raises is not mapped to 0: its
\* exception reaches the top-level handler and the run shows no success.
C4_NaNToZeroRaisePropagates ==
    \A s \in Sessions :
      /\ pc[s] \in {"f1", "f2", "f3", "jitter", "lh"} =>
           answer[s].k \in {"num", "nan"}
      /\ pc[s] = "f1" => m_pitch[s] = Coerced(answer[s])
      /\ pc[s] = "f2" => f1[s] = Coerced(answer[s])
      /\ pc[s] = "f3" => f2[s] = Coerced(answer[s])
      /\ pc[s] = "jitter" => f3[s] = Coerced(answer[s])
      /\ pc[s] = "lh" => hnr[s] = Coerced(answer[s])
      /\ raised[s] \in GuardedQueries =>
           /\ pc[s] = "except" \/ PastHandler(s)
           /\ ~Has(page[s], "success")
           /\ PastHandler(s) => Has(page[s], "error")

C4_Witness ==
    \E s \in Sessions :
      /\ pc[s] = "lh"
      /\ answer[s] = NaN
      /\ hnr[s] = Num(0)
      /\ m_pitch[s] = Num(2)

\* the page shows the handler's output once: one error, followed by the hint
ErrorShownOnce(s) ==
    /\ Count(page[s], "error") = 1
    /\ Count(page[s], "info") = 1
    /\ \E i \in 1..(Len(page[s]) - 1) :
         page[s][i] = "error" /\ page[s][i + 1] = "info"
    /\ ~Has(page[s], "success")

\* C5 as stated: a run in which any step inside the top-level try raised
\* shows one error message followed by the hint and no success message, and
\* the success message is shown only if no step inside the try raised.
C5_AnyRaiseIsReported ==
    \A s \in Sessions :
      /\ ((raised[s] # "none" \/ caught[s] # "none") /\ PastHandler(s)) =>
           ErrorShownOnce(s)
      /\ Has(page[s], "success") => raised[s] = "none" /\ caught[s] = "none"

\* C5 as amended: the same, for every exception but those of the jitter and
\* shimmer queries, which their own handler catches.
C5_EscapedRaiseIsReported ==
    \A s \in Sessions :
      /\ (raised[s] # "none" /\ PastHandler(s)) => ErrorShownOnce(s)
      /\ Has(page[s], "success") => raised[s] = "none"

C5_Witness ==
    \E s \in Sessions :
      /\ raised[s] = "plot"
      /\ page[s] = <<"results", "error", "info">>

\* C6: the ratio is (sum of the magnitudes at or below 1000 Hz) / (sum of
\* those above) when the latter is positive and 0 when it is zero; it is
\* never the result of a division by zero; a silent buffer gives 0.
C6_RatioGuarded ==
    \A s \in Sessions :
      S[s] # <<>> =>
        LET lo == SumBins(S[s], {k \in Bins : k * SampleRate <= BandSplitHz * NFft})
            hi == SumBins(S[s], {k \in Bins : k * SampleRate > BandSplitHz * NFft})
        IN /\ lh_ratio[s] # NoRatio
           /\ lh_ratio[s][2] # 0
           /\ hi > 0 => lh_ratio[s][1] * hi = lo * lh_ratio[s][2]
           /\ hi = 0 => lh_ratio[s] = ZeroRatio
           /\ Silent(y[s]) => lh_ratio[s] = ZeroRatio

C6_Witness ==
    \E s \in Sessions :
      /\ S[s] # <<>>
      /\ ~Silent(y[s])
      /\ low_band[s] > 0
      /\ high_band[s] = 0
      /\ lh_ratio[s] = ZeroRatio
      /\ Has(page[s], "results")

\* C7 (the part that needs no file-system fault): when no run is in
\* progress, nothing a finished run created is left on disk or in the
\* process.
C7_NothingRetained ==
    ((\A s \in Sessions : pc[s] = "idle") /\ faults = 0) =>
      disk = {} /\ figs = 0

\* C8: a run gets past the upload guard, creates a temp file or renders
\* anything only for an upload whose extension is wav, mp4 or m4a.
C8_OnlyAcceptedUploads ==
    \A s \in Sessions :
      (pc[s] # "idle" \/ created[s] # {} \/ page[s] # <<>>) =>
        /\ offered[s] # NoFile
        /\ Lower(offered[s][2]) \in
             {<<".", "w", "a", "v">>, <<".", "m", "p", "4">>,
              <<".", "m", "4", "a">>}
        /\ pc[s] # "idle" => uploaded_file[s] = offered[s]

C8_Witness ==
    \E s \in Sessions :
      /\ offered[s] = <<"c", <<".", "m", "4", "A">>>>
      /\ pc[s] = "load"
      /\ tmp_file_path[s] \in disk
      /\ tmp_file_path[s][2] = <<".", "m", "4", "a">>

\* C9: the step in which the jitter or shimmer query raises leads on to the
\* HNR query, leaves pitch, F1, F2, F3, the page and the disk as they were
\* and does not reach the top-level handler; the results of such a run show
\* HNR and the L/H ratio.
C9_StabilityErrorIsLocal ==
    /\ [][\A s \in Sessions :
            (caught'[s] # caught[s] /\ caught'[s] # "none") =>
              /\ pc'[s] = "hnr"
              /\ raised'[s] = "none"
              /\ m_pitch'[s] = m_pitch[s]
              /\ f1'[s] = f1[s] /\ f2'[s] = f2[s] /\ f3'[s] = f3[s]
              /\ y'[s] = y[s]
              /\ page'[s] = page[s]
              /\ disk' = disk]_vars
    /\ [](\A s \in Sessions :
            (caught[s] # "none" /\ Has(page[s], "results")) =>
              metrics[s].hnr.k = "num" /\ metrics[s].lh.k = "num")

C9_Witness ==
    \E s \in Sessions :
      /\ caught[s] = "jitter"
      /\ Has(page[s], "success")
      /\ metrics[s].pitch = Num(200)
      /\ metrics[s].hnr = Num(200)
      /\ metrics[s].lh.k = "num"

\* C10 (its consequence): with the runs of two sessions interleaved, the
\* file a run is about to read (its upload temp file, its converted WAV) has
\* not been removed by the other run.
C10_NeededFileIntact ==
    \A s \in Sessions :
      /\ pc[s] = "load" => tmp_file_path[s] \in disk
      /\ pc[s] = "analyse" => audio_only_path[s] \in disk

===========================================================================
